---- MODULE Spec2Model ----
(***************************************************************************)
(* Broken-link crawler: crawler.py (HTTP variant, requests) and            *)
(* crawler_selenium.py (browser-rendered variant).                         *)
(*                                                                         *)
(* A URL or href is a sequence of lexical tokens, e.g.                     *)
(*   https://ex.test/a   is  <<"https", ":", "//", "ex.test", "/", "a">>   *)
(*   mailto:x@ex.test    is  <<"mailto", ":", "x@ex.test">>                *)
(*   not a url           is  <<"not a url">>                               *)
(* urlparse / urljoin / startswith work on these tokens.                   *)
(***************************************************************************)
EXTENDS Integers, Sequences, FiniteSets, TLC

(***************************************************************************)
(* Bounds of the model and program constants                               *)
(***************************************************************************)
MaxDepth == 2
MaxWorkers == 2
MaxRuns == 2

MAX_RETRIES == 3
MIN_DELAY == 1
MAX_DELAY == 3

None == <<>>

(***************************************************************************)
(* String helpers on token sequences                                       *)
(***************************************************************************)
Lower(tok) ==
    CASE tok = "MAILTO" -> "mailto"
      [] tok = "Mailto" -> "mailto"
      [] tok = "TEL"    -> "tel"
      [] tok = "HTTPS"  -> "https"
      [] OTHER          -> tok

Tail2(s) == SubSeq(s, 3, Len(s))

\* index of the first "/" token of s, or Len(s) + 1
RECURSIVE FirstSlash(_, _)
FirstSlash(s, i) ==
    IF i > Len(s) THEN i
    ELSE IF s[i] = "/" THEN i ELSE FirstSlash(s, i + 1)

\* index of the last "/" token of s, or 0
RECURSIVE LastSlash(_, _)
LastSlash(s, i) ==
    IF i = 0 THEN 0
    ELSE IF s[i] = "/" THEN i ELSE LastSlash(s, i - 1)

\* Python's `a in b` on strings: a occurs as a contiguous part of b
IsInfix(a, b) ==
    \E i \in 0..(Len(b) - Len(a)) : SubSeq(b, i + 1, i + Len(a)) = a

\* urllib.parse.urlparse: scheme (lower-cased), netloc, path
urlparse(url) ==
    LET hasScheme == Len(url) >= 2 /\ url[2] = ":"
        scheme    == IF hasScheme THEN Lower(url[1]) ELSE ""
        rest      == IF hasScheme THEN Tail2(url) ELSE url
        hasNetloc == Len(rest) >= 1 /\ rest[1] = "//"
        after     == IF hasNetloc THEN Tail(rest) ELSE rest
        cut       == FirstSlash(after, 1)
    IN  [scheme |-> scheme,
         netloc |-> IF hasNetloc THEN SubSeq(after, 1, cut - 1) ELSE <<>>,
         path   |-> IF hasNetloc THEN SubSeq(after, cut, Len(after)) ELSE rest]

urlunparse(scheme, netloc, path) ==
    (IF scheme = "" THEN <<>> ELSE <<scheme, ":">>)
    \o (IF netloc = <<>> THEN <<>> ELSE <<"//">> \o netloc)
    \o path

uses_relative == {"", "http", "https", "ftp", "file"}
uses_netloc == {"", "http", "https", "ftp", "file"}

\* urllib.parse.urljoin(base, url)
urljoin_unresolved(base, url) == url
urljoin(base, url) ==
    IF base = <<>> THEN url
    ELSE IF url = <<>> THEN base
    ELSE
      LET b      == urlparse(base)
          u0     == urlparse(url)
          scheme == IF u0.scheme = "" THEN b.scheme ELSE u0.scheme
          bdir   == SubSeq(b.path, 1, LastSlash(b.path, Len(b.path)))
          path   == IF u0.path = <<>> THEN b.path
                    ELSE IF u0.path[1] = "/" THEN u0.path
                    ELSE (IF bdir = <<>> THEN <<"/">> ELSE bdir) \o u0.path
      IN  IF scheme # b.scheme \/ scheme \notin uses_relative THEN url
          ELSE IF scheme \in uses_netloc /\ u0.netloc # <<>>
               THEN urlunparse(scheme, u0.netloc, u0.path)
          ELSE urlunparse(scheme, b.netloc, path)

\* is_valid_url: all([result.scheme, result.netloc])
is_valid_url(url) ==
    LET result == urlparse(url)
    IN  result.scheme # "" /\ result.netloc # <<>>

\* is_target_domain: target_domain in parsed.netloc
is_target_domain_any(url, target_domain) == TRUE
is_target_domain(url, target_domain) ==
    IsInfix(target_domain, urlparse(url).netloc)

\* url.lower().startswith('mailto:')
is_mailto_link(url) ==
    Len(url) >= 2 /\ Lower(url[1]) = "mailto" /\ url[2] = ":"

\* url.lower().startswith('tel:')
is_tel_link(url) ==
    Len(url) >= 2 /\ Lower(url[1]) = "tel" /\ url[2] = ":"

(***************************************************************************)
(* Sites: the pages the crawler can meet                                   *)
(***************************************************************************)
Https(netloc, path) == <<"https", ":", "//">> \o netloc \o path

ExTest == <<"ex.test">>
Seed == Https(ExTest, <<"/">>)
PageA == Https(ExTest, <<"/", "a">>)
PageB == Https(ExTest, <<"/", "b">>)
PageC == Https(ExTest, <<"/", "c">>)
PageD == Https(ExTest, <<"/", "d">>)
PageNotAUrl == Https(ExTest, <<"/", "not a url">>)
External == Https(<<"other.org">>, <<"/">>)
HrefMail == <<"mailto", ":", "x@ex.test">>
HrefMailUpper == <<"MAILTO", ":", "x@ex.test">>
HrefTel == <<"tel", ":", "+123">>
HrefJs == <<"javascript", ":", "void(0)">>
HrefNotAUrl == <<"not a url">>
HrefRelB == <<"b">>

\* the outcome of one physical attempt: a response with a status code, a
\* timeout, or a transport-level failure
Status(code) == [kind |-> "status", code |-> code]
TimedOut == [kind |-> "timeout", code |-> 0]
ConnErr == [kind |-> "connerr", code |-> 0]

Page(outcomes, links) == [outcomes |-> outcomes, links |-> links]
MissingPage == Page({Status(404)}, <<>>)

SiteNames == {"scenario", "invalid", "schemes", "depth", "flaky", "partial", "fanout", "repeat"}

\* what a site answers for url: the possible outcomes of one physical
\* attempt and the hrefs of the page it serves
PageOf(s, url) ==
    CASE s = "scenario" ->
           (CASE url = Seed  -> Page({Status(200)}, <<PageA, PageB, HrefMail>>)
              [] url = PageA -> Page({Status(200)}, <<HrefRelB>>)
              [] url = PageB -> Page({Status(404)}, <<>>)
              [] OTHER       -> MissingPage)
      [] s = "invalid" ->
           (CASE url = Seed  -> Page({Status(200)}, <<HrefNotAUrl>>)
              [] OTHER       -> MissingPage)
      [] s = "schemes" ->
           (CASE url = Seed     -> Page({Status(200)}, <<HrefTel, HrefMailUpper, External, HrefJs, <<>>, External>>)
              [] url = External -> Page({Status(200)}, <<Seed>>)
              [] OTHER          -> MissingPage)
      [] s = "depth" ->
           (CASE url = Seed  -> Page({Status(200)}, <<PageA, PageB>>)
              [] url = PageA -> Page({Status(200)}, <<PageB>>)
              [] url = PageB -> Page({Status(200)}, <<PageC>>)
              [] OTHER       -> MissingPage)
      [] s = "flaky" ->
           (CASE url = Seed  -> Page({Status(200), Status(404), TimedOut, ConnErr}, <<PageA>>)
              [] url = PageA -> Page({Status(204), TimedOut}, <<>>)
              [] OTHER       -> MissingPage)
      [] s = "fanout" ->
           (CASE url = Seed  -> Page({Status(200)}, <<PageA, PageB>>)
              [] url = PageB -> Page({Status(200)}, <<PageC, PageD>>)
              [] OTHER       -> Page({Status(200)}, <<>>))
      [] s = "repeat" ->
           (CASE url = Seed  -> Page({Status(200)}, <<HrefJs, HrefJs>>)
              [] OTHER       -> MissingPage)
      [] s = "partial" ->
           (CASE url = Seed  -> Page({Status(200)}, <<PageA>>)
              [] url = PageA -> Page({Status(203)}, <<PageB>>)
              [] OTHER       -> MissingPage)

StaticSites == {"scenario", "invalid", "schemes", "depth", "partial", "fanout", "repeat"}

(***************************************************************************)
(* State                                                                   *)
(***************************************************************************)
VARIABLES
    variant,            \* "http" (crawler.py) or "selenium" (crawler_selenium.py)
    site,               \* the site being crawled
    max_depth,          \* crawl_url's max_depth
    max_workers,        \* crawl_url's max_workers (MAX_WORKERS = 5 in main)
    visited,            \* visited_urls
    broken_links,       \* set of <<origin, detail>>
    file,               \* lines appended to OUTPUT_FILE
    tasks,              \* the crawl_url calls made so far, tasks[1] the root
    visited_lock,       \* holder of each lock, 0 when free
    broken_links_lock,
    file_lock,
    run,                \* number of the current run of main
    prevBroken          \* broken_links at the end of the previous run

vars == <<variant, site, max_depth, max_workers, visited, broken_links, file,
          tasks, visited_lock, broken_links_lock, file_lock, run, prevBroken>>

config == <<variant, site, max_depth, max_workers>>

Variants == {"http", "selenium"}

\* main: target_domain = urlparse(start_url).netloc
target_domain == urlparse(Seed).netloc

\* what a fetch left in the task: nothing yet, a response, or an exception
NoResult == [kind |-> "none", exc |-> "", code |-> 0]
Response(code) == [kind |-> "response", exc |-> "", code |-> code]
Raised(exc, code) == [kind |-> "raised", exc |-> exc, code |-> code]

\* the detail text of a broken-link record
InvalidDetail(absolute_url) ==
    [kind |-> "Invalid URL", url |-> absolute_url, exc |-> "", code |-> 0]
StatusDetail(url, code) ==
    [kind |-> "Status", url |-> url, exc |-> "", code |-> code]
ErrorDetail(url, e) ==
    [kind |-> "Error", url |-> url, exc |-> e.exc, code |-> e.code]

\* origin_url or url
OriginOrUrl_self(origin_url, url) == url
OriginOrUrl(origin_url, url) == IF origin_url # None THEN origin_url ELSE url

NewTask(url, origin_url, current_depth, parent) ==
    [url |-> url, origin_url |-> origin_url, current_depth |-> current_depth,
     parent |-> parent, pc |-> "queued", claimed |-> FALSE,
     attempt |-> 0, slept |-> 0, sleeps |-> 0, waits |-> <<>>,
     outcomes |-> <<>>, result |-> NoResult,
     links |-> <<>>, k |-> 1, links_to_crawl |-> <<>>, j |-> 1,
     futures |-> {}, pending |-> None, ret |-> "done"]

Ids == 1..Len(tasks)
Root == 1
Done == tasks[Root].pc = "done"

Init ==
    /\ variant \in Variants
    /\ site \in SiteNames
    /\ max_depth \in 0..MaxDepth
    /\ max_workers \in 1..MaxWorkers
    /\ visited = {}
    /\ broken_links = {}
    /\ file = <<>>
    /\ tasks = <<NewTask(Seed, None, 0, 0)>>
    /\ visited_lock = 0
    /\ broken_links_lock = 0
    /\ file_lock = 0
    /\ run = 1
    /\ prevBroken = {}

(***************************************************************************)
(* crawl_url                                                               *)
(***************************************************************************)
\* current_depth > max_depth
BeyondMaxDepth_never(current_depth, limit) == FALSE
BeyondMaxDepth(current_depth, limit) == current_depth > limit

\* url in visited (the check made by the task itself)
AlreadyVisited_never(url, seen) == FALSE
AlreadyVisited(url, seen) == url \in seen

\* link_url not in visited (the check made by the parent before submit)
NotYetVisited(link_url, seen) == link_url \notin seen

\* a ThreadPoolExecutor(max_workers) runs its queue in submission order, at
\* most max_workers calls at a time; the root is called by main directly
RunningSiblings(t) ==
    {s \in Ids : tasks[s].parent = tasks[t].parent
                 /\ tasks[s].pc \notin {"queued", "done"}}
WorkerFree_starved(t) ==
    \/ tasks[t].parent = 0
    \/ /\ Cardinality(RunningSiblings(t)) < max_workers - 1
       /\ \A s \in Ids : (tasks[s].parent = tasks[t].parent
                          /\ tasks[s].pc = "queued") => s >= t
WorkerFree_unbounded(t) ==
    \/ tasks[t].parent = 0
    \/ \A s \in Ids : (tasks[s].parent = tasks[t].parent
                       /\ tasks[s].pc = "queued") => s >= t
WorkerFree(t) ==
    \/ tasks[t].parent = 0
    \/ /\ Cardinality(RunningSiblings(t)) < max_workers
       /\ \A s \in Ids : (tasks[s].parent = tasks[t].parent
                          /\ tasks[s].pc = "queued") => s >= t

\* entry of crawl_url: the depth check
Enter(t) ==
    /\ tasks[t].pc = "queued"
    /\ WorkerFree(t)
    /\ tasks' = [tasks EXCEPT ![t].pc =
                    IF BeyondMaxDepth(tasks[t].current_depth, max_depth)
                    THEN "done" ELSE "claim"]
    /\ UNCHANGED <<config, visited, broken_links, file, visited_lock,
                   broken_links_lock, file_lock, run, prevBroken>>

\* with visited_lock: if url in visited: return; visited.add(url)
Claim(t) ==
    /\ tasks[t].pc = "claim"
    /\ visited_lock = 0
    /\ visited_lock' = t
    /\ IF AlreadyVisited(tasks[t].url, visited)
       THEN /\ tasks' = [tasks EXCEPT ![t].pc = "duplicate"]
            /\ UNCHANGED visited
       ELSE /\ visited' = visited \cup {tasks[t].url}
            /\ tasks' = [tasks EXCEPT ![t].pc = "claimed", ![t].claimed = TRUE]
    /\ UNCHANGED <<config, broken_links, file, broken_links_lock, file_lock,
                   run, prevBroken>>

\* returning on an already visited url with visited_lock still held
ClaimRelease_keep(t) ==
    /\ tasks[t].pc \in {"duplicate", "claimed"}
    /\ visited_lock = t
    /\ visited_lock' = IF tasks[t].pc = "duplicate" THEN t ELSE 0
    /\ tasks' = [tasks EXCEPT ![t].pc =
                    IF tasks[t].pc = "duplicate" THEN "done"
                    ELSE IF ~is_target_domain(tasks[t].url, target_domain) THEN "done"
                    ELSE IF variant = "http" THEN "sleep" ELSE "get"]
    /\ UNCHANGED <<config, visited, broken_links, file, broken_links_lock,
                   file_lock, run, prevBroken>>

\* leaving the with block, then the domain check
ClaimRelease(t) ==
    /\ tasks[t].pc \in {"duplicate", "claimed"}
    /\ visited_lock = t
    /\ visited_lock' = 0
    /\ tasks' = [tasks EXCEPT ![t].pc =
                    IF tasks[t].pc = "duplicate" THEN "done"
                    ELSE IF ~is_target_domain(tasks[t].url, target_domain) THEN "done"
                    ELSE IF variant = "http" THEN "sleep" ELSE "get"]
    /\ UNCHANGED <<config, visited, broken_links, file, broken_links_lock,
                   file_lock, run, prevBroken>>

(***************************************************************************)
(* fetch_url_with_retry (HTTP variant)                                     *)
(***************************************************************************)
Delays == MIN_DELAY..MAX_DELAY

\* response.raise_for_status()
RaisesForStatus(code) == 400 <= code /\ code < 600

\* attempt < retries - 1
MayRetry(attempt, retries) == attempt < retries - 1

\* wait_time = 2 ** attempt
BackoffWait_linear(attempt) == 2 * attempt
BackoffWait(attempt) == 2 ^ attempt

ExceptionOf(o) ==
    CASE o.kind = "timeout" -> Raised("Timeout", 0)
      [] o.kind = "connerr" -> Raised("ConnectionError", 0)
      [] OTHER              -> Raised("HTTPError", o.code)

\* time.sleep(random.uniform(MIN_DELAY, MAX_DELAY))
RateLimit(t) ==
    /\ tasks[t].pc = "sleep"
    /\ \E d \in Delays :
          tasks' = [tasks EXCEPT ![t].pc = "get", ![t].slept = d,
                                 ![t].sleeps = @ + 1]
    /\ UNCHANGED <<config, visited, broken_links, file, visited_lock,
                   broken_links_lock, file_lock, run, prevBroken>>

\* what crawl_url does with what fetch_url_with_retry returned or raised
AfterFetch(tk, res) ==
    IF res.kind = "response"
    THEN IF res.code = 200
         THEN [tk EXCEPT !.pc = "scan", !.result = res,
                         !.links = PageOf(site, tk.url).links]
         ELSE IF res.code >= 400
         THEN [tk EXCEPT !.pc = "record", !.result = res, !.ret = "done",
                         !.pending = <<OriginOrUrl(tk.origin_url, tk.url),
                                       StatusDetail(tk.url, res.code)>>]
         ELSE [tk EXCEPT !.pc = "done", !.result = res]
    ELSE [tk EXCEPT !.pc = "record", !.result = res, !.ret = "done",
                    !.pending = <<OriginOrUrl(tk.origin_url, tk.url),
                                  ErrorDetail(tk.url, res)>>]

\* one physical attempt: session.get, raise_for_status, and the except
\* clauses of fetch_url_with_retry
HttpGet(t) ==
    /\ variant = "http"
    /\ tasks[t].pc = "get"
    /\ \E o \in PageOf(site, tasks[t].url).outcomes :
        LET tk     == [tasks[t] EXCEPT !.outcomes = Append(@, o), !.slept = 0]
            raises == o.kind # "status" \/ RaisesForStatus(o.code)
        IN  tasks' = [tasks EXCEPT ![t] =
                IF ~raises THEN AfterFetch(tk, Response(o.code))
                ELSE IF MayRetry(tk.attempt, MAX_RETRIES)
                THEN [tk EXCEPT !.pc = "sleep",
                                !.waits = Append(@, BackoffWait(tk.attempt)),
                                !.attempt = @ + 1]
                ELSE AfterFetch(tk, ExceptionOf(o))]
    /\ UNCHANGED <<config, visited, broken_links, file, visited_lock,
                   broken_links_lock, file_lock, run, prevBroken>>

(***************************************************************************)
(* driver.get (browser-rendered variant)                                   *)
(***************************************************************************)
SeleniumGet(t) ==
    /\ variant = "selenium"
    /\ tasks[t].pc = "get"
    /\ \E o \in PageOf(site, tasks[t].url).outcomes :
        LET tk == [tasks[t] EXCEPT !.outcomes = Append(@, o)]
            e  == IF o.kind = "timeout"
                  THEN Raised("Page load timeout", 0)
                  ELSE Raised("WebDriverException", 0)
        IN  tasks' = [tasks EXCEPT ![t] =
                IF o.kind = "status"
                THEN [tk EXCEPT !.pc = "scan", !.result = Response(o.code),
                                !.links = PageOf(site, tk.url).links]
                ELSE [tk EXCEPT !.pc = "record", !.result = e, !.ret = "done",
                                !.pending = <<OriginOrUrl(tk.origin_url, tk.url),
                                              ErrorDetail(tk.url, e)>>]]
    /\ UNCHANGED <<config, visited, broken_links, file, visited_lock,
                   broken_links_lock, file_lock, run, prevBroken>>

(***************************************************************************)
(* the link loop and the sub-tasks                                         *)
(***************************************************************************)
\* the hrefs the loop skips
SkipsLink(v, href) ==
    IF v = "http"
    THEN is_mailto_link(href) \/ is_tel_link(href)
    ELSE href = <<>> \/ is_mailto_link(href)

\* one iteration of the loop over the page's links
ScanLink(t) ==
    /\ tasks[t].pc = "scan"
    /\ LET tk == tasks[t] IN
       IF tk.k > Len(tk.links)
       THEN tasks' = [tasks EXCEPT ![t].pc = "submit"]
       ELSE \E href \in {tk.links[tk.k]} :
            \E absolute_url \in {urljoin(tk.url, href)} :
                tasks' = [tasks EXCEPT ![t] =
                   IF SkipsLink(variant, href)
                   THEN [tk EXCEPT !.k = @ + 1]
                   ELSE IF is_valid_url(absolute_url)
                   THEN [tk EXCEPT !.k = @ + 1,
                            !.links_to_crawl = Append(@, <<absolute_url, tk.url>>)]
                   ELSE [tk EXCEPT !.k = @ + 1, !.pc = "record", !.ret = "scan",
                            !.pending = <<tk.url, InvalidDetail(absolute_url)>>]]
    /\ UNCHANGED <<config, visited, broken_links, file, visited_lock,
                   broken_links_lock, file_lock, run, prevBroken>>

\* with broken_links_lock: broken_links.add(...)
RecordLock(t) ==
    /\ tasks[t].pc = "record"
    /\ broken_links_lock = 0
    /\ broken_links_lock' = t
    /\ broken_links' = broken_links \cup {tasks[t].pending}
    /\ tasks' = [tasks EXCEPT ![t].pc = "write"]
    /\ UNCHANGED <<config, visited, file, visited_lock, file_lock, run, prevBroken>>

\* write_broken_link_to_file writing nothing
FileLock_nowrite(t) ==
    /\ tasks[t].pc = "write"
    /\ file_lock = 0
    /\ file_lock' = t
    /\ tasks' = [tasks EXCEPT ![t].pc = "written"]
    /\ UNCHANGED <<config, visited, broken_links, file, visited_lock,
                   broken_links_lock, run, prevBroken>>

\* write_broken_link_to_file: with file_lock: f.write(...)
FileLock(t) ==
    /\ tasks[t].pc = "write"
    /\ file_lock = 0
    /\ file_lock' = t
    /\ file' = Append(file, tasks[t].pending)
    /\ tasks' = [tasks EXCEPT ![t].pc = "written"]
    /\ UNCHANGED <<config, visited, broken_links, visited_lock,
                   broken_links_lock, run, prevBroken>>

\* leaving both with blocks
RecordRelease(t) ==
    /\ tasks[t].pc = "written"
    /\ file_lock' = 0
    /\ broken_links_lock' = 0
    /\ tasks' = [tasks EXCEPT ![t].pc = tasks[t].ret, ![t].pending = None]
    /\ UNCHANGED <<config, visited, broken_links, file, visited_lock, run, prevBroken>>

\* with visited_lock: if link_url not in visited: executor.submit(crawl_url, ...)
SubmitLock(t) ==
    /\ tasks[t].pc = "submit"
    /\ LET tk == tasks[t] IN
       IF tk.j > Len(tk.links_to_crawl)
       THEN /\ tasks' = [tasks EXCEPT ![t].pc = "wait"]
            /\ UNCHANGED visited_lock
       ELSE /\ visited_lock = 0
            /\ visited_lock' = t
            /\ LET link_url == tk.links_to_crawl[tk.j][1]
                   origin   == tk.links_to_crawl[tk.j][2]
               IN  IF NotYetVisited(link_url, visited)
                   THEN tasks' = Append(
                           [tasks EXCEPT ![t].pc = "submitted",
                                         ![t].futures = @ \cup {Len(tasks) + 1}],
                           NewTask(link_url, origin, tk.current_depth + 1, t))
                   ELSE tasks' = [tasks EXCEPT ![t].pc = "submitted"]
    /\ UNCHANGED <<config, visited, broken_links, file, broken_links_lock,
                   file_lock, run, prevBroken>>

SubmitRelease(t) ==
    /\ tasks[t].pc = "submitted"
    /\ visited_lock = t
    /\ visited_lock' = 0
    /\ tasks' = [tasks EXCEPT ![t].pc = "submit", ![t].j = @ + 1]
    /\ UNCHANGED <<config, visited, broken_links, file, broken_links_lock,
                   file_lock, run, prevBroken>>

\* crawl_url returning without waiting for its futures
Join_nowait(t) ==
    /\ tasks[t].pc = "wait"
    /\ tasks' = [tasks EXCEPT ![t].pc = "done"]
    /\ UNCHANGED <<config, visited, broken_links, file, visited_lock,
                   broken_links_lock, file_lock, run, prevBroken>>

\* concurrent.futures.wait(futures) and the executor's shutdown
Join(t) ==
    /\ tasks[t].pc = "wait"
    /\ \A c \in tasks[t].futures : tasks[c].pc = "done"
    /\ tasks' = [tasks EXCEPT ![t].pc = "done"]
    /\ UNCHANGED <<config, visited, broken_links, file, visited_lock,
                   broken_links_lock, file_lock, run, prevBroken>>

\* main run again on the same site: fresh sets, output file removed
Rerun ==
    /\ Done
    /\ run < MaxRuns
    /\ run' = run + 1
    /\ prevBroken' = broken_links
    /\ visited' = {}
    /\ broken_links' = {}
    /\ file' = <<>>
    /\ tasks' = <<NewTask(Seed, None, 0, 0)>>
    /\ UNCHANGED <<config, visited_lock, broken_links_lock, file_lock>>

Next ==
    \/ \E t \in Ids : Enter(t)
    \/ \E t \in Ids : Claim(t)
    \/ \E t \in Ids : ClaimRelease(t)
    \/ \E t \in Ids : RateLimit(t)
    \/ \E t \in Ids : HttpGet(t)
    \/ \E t \in Ids : SeleniumGet(t)
    \/ \E t \in Ids : ScanLink(t)
    \/ \E t \in Ids : RecordLock(t)
    \/ \E t \in Ids : FileLock(t)
    \/ \E t \in Ids : RecordRelease(t)
    \/ \E t \in Ids : SubmitLock(t)
    \/ \E t \in Ids : SubmitRelease(t)
    \/ \E t \in Ids : Join(t)

Spec == Init /\ [][Next]_vars

\* a run whose threads are scheduled fairly: a step that can be taken is
\* eventually taken (sleeps end, every request ends in a response or a
\* timeout, a runnable thread is eventually run)
SpecFair == Init /\ [][Next]_vars /\ WF_vars(Next)

\* runs of main repeated on a static site
InitStatic == Init /\ site \in StaticSites
NextRerun == Next \/ Rerun
SpecRerun == InitStatic /\ [][NextRerun]_vars

(***************************************************************************)
(* Properties                                                              *)
(***************************************************************************)
\* a physical attempt was made for the task's URL (session.get / driver.get)
Fetched(t) == tasks[t].outcomes # <<>>
\* the task is inside its fetch
Fetching(t) == tasks[t].pc \in {"sleep", "get"}

\* C1: the check-and-insert on visited succeeds at most once per URL, a
\* fetch of a URL is made only by a task that claimed it, so at most one
\* task fetches a given URL, whatever the interleaving.
C1_ClaimOnceFetchOnce ==
    /\ \A t \in Ids : (Fetched(t) \/ Fetching(t)) => tasks[t].claimed
    /\ \A t1, t2 \in Ids :
          (tasks[t1].url = tasks[t2].url /\ tasks[t1].claimed /\ tasks[t2].claimed)
             => t1 = t2
    /\ \A t1, t2 \in Ids :
          (tasks[t1].url = tasks[t2].url /\ Fetched(t1) /\ Fetched(t2)) => t1 = t2
    /\ visited = {tasks[t].url : t \in {x \in Ids : tasks[x].claimed}}

\* two tasks were dispatched for one URL; one claimed and fetched it, the
\* other found it visited and returned
C1_Witness ==
    \E t1, t2 \in Ids :
       /\ t1 # t2
       /\ tasks[t1].url = tasks[t2].url
       /\ tasks[t1].claimed /\ Fetched(t1)
       /\ tasks[t2].pc = "done" /\ ~tasks[t2].claimed
       /\ tasks[t2].current_depth <= max_depth

\* C2: a crawl_url call with current_depth > max_depth is a no-op: it never
\* claims, fetches, records or dispatches; with max_depth = 0 on the
\* scenario site (the seed links to /b, which answers 404) /b is never
\* fetched and no broken link is ever recorded.
C2_BeyondDepthNoOp ==
    /\ \A t \in Ids : tasks[t].current_depth > max_depth =>
          /\ tasks[t].pc \in {"queued", "done"}
          /\ ~tasks[t].claimed
          /\ ~Fetched(t) /\ tasks[t].sleeps = 0
          /\ tasks[t].pending = None
          /\ tasks[t].futures = {}
          /\ tasks[t].links_to_crawl = <<>>
    /\ visited = {tasks[t].url : t \in {x \in Ids : tasks[x].claimed}}
    /\ (site = "scenario" /\ max_depth = 0) =>
          /\ \A t \in Ids : tasks[t].url = PageB => ~Fetched(t)
          /\ PageB \notin visited
          /\ broken_links = {} /\ file = <<>>

\* the run with max_depth = 0 is over and the task for the 404 page ran
C2_Witness ==
    /\ site = "scenario" /\ max_depth = 0 /\ Done
    /\ \E t \in Ids : /\ tasks[t].url = PageB
                      /\ tasks[t].current_depth = 1
                      /\ tasks[t].pc = "done"

IsMailtoOrTel(url) ==
    /\ Len(url) >= 2 /\ url[2] = ":"
    /\ Lower(url[1]) \in {"mailto", "tel"}

\* C3: in both variants a mailto: or tel: href (any case) is never added to
\* visited, never made a task or fetched, and never recorded as broken.
C3_MailtoTelIgnored ==
    /\ \A u \in visited : ~IsMailtoOrTel(u)
    /\ \A t \in Ids : ~IsMailtoOrTel(tasks[t].url)
    /\ \A r \in broken_links : ~IsMailtoOrTel(r[2].url)

\* the same statement for the HTTP variant alone
C3_MailtoTelIgnoredHttp == variant = "http" => C3_MailtoTelIgnored

OutOfDomain(url) ==
    /\ is_valid_url(url)
    /\ ~IsInfix(urlparse(Seed).netloc, urlparse(url).netloc)

\* C4: a valid link outside the target domain, dispatched at a depth not
\* beyond max_depth, is added to visited by its task but is never fetched
\* and never recorded as broken.
C4_OutOfDomainClaimedNotFetched ==
    /\ \A t \in Ids : OutOfDomain(tasks[t].url) =>
          /\ ~Fetched(t) /\ ~Fetching(t) /\ tasks[t].sleeps = 0
          /\ tasks[t].pending = None
          /\ tasks[t].futures = {}
          /\ (tasks[t].pc = "done" /\ tasks[t].current_depth <= max_depth)
                => tasks[t].url \in visited
    /\ \A t1, t2 \in Ids :
          (/\ OutOfDomain(tasks[t1].url) /\ tasks[t1].url = tasks[t2].url
           /\ tasks[t1].claimed /\ tasks[t2].claimed) => t1 = t2
    /\ \A r \in broken_links : ~OutOfDomain(r[2].url)

\* the run is over: one task of the external link claimed it and returned,
\* a second task dispatched for it found it visited
C4_Witness ==
    /\ Done
    /\ \E t1, t2 \in Ids :
          /\ tasks[t1].url = External /\ tasks[t2].url = External
          /\ tasks[t1].claimed /\ ~tasks[t2].claimed
          /\ tasks[t2].current_depth <= max_depth
          /\ External \in visited

LastOutcome(t) == tasks[t].outcomes[Len(tasks[t].outcomes)]
RecordsAbout(url) ==
    {r \in broken_links : r[2].url = url /\ r[2].kind # "Invalid URL"}

\* C5: in both variants, when the fetch of a claimed in-domain URL ended
\* with a status code >= 400, the finished task has left exactly one record
\* for the URL, with origin origin_url (the URL itself for the root) and
\* the status code in its detail.
C5_ErrorStatusRecordedOnce ==
    \A t \in Ids :
       (/\ tasks[t].pc = "done" /\ tasks[t].claimed /\ Fetched(t)
        /\ LastOutcome(t).kind = "status" /\ LastOutcome(t).code >= 400)
       => /\ Cardinality(RecordsAbout(tasks[t].url)) = 1
          /\ \A r \in RecordsAbout(tasks[t].url) :
                /\ r[1] = (IF tasks[t].origin_url # None
                           THEN tasks[t].origin_url ELSE tasks[t].url)
                /\ r[2].code = LastOutcome(t).code

\* the same statement for the HTTP variant alone
C5_ErrorStatusRecordedOnceHttp == variant = "http" => C5_ErrorStatusRecordedOnce

ScenarioRun == site = "scenario" /\ variant = "http" /\ max_depth >= 1 /\ Done

\* C6 as stated: on the scenario site the run ends with exactly the record
\* {https://ex.test/b >> https://ex.test/b - Status: 404}.
C6_ScenarioRecordAsStated ==
    ScenarioRun =>
       /\ broken_links = {<<PageB, StatusDetail(PageB, 404)>>}
       /\ file = <<(<<PageB, StatusDetail(PageB, 404)>>)>>

\* C6 amended: on the scenario site (HTTP variant, max_depth >= 1) every
\* run ends with exactly one record, about /b with the 404 of the HTTP
\* error the fetch raised in its detail; its origin is the page whose link
\* to /b won the claim: the seed, or /a.
C6_ScenarioRecord ==
    ScenarioRun =>
       \E o \in {Seed, PageA} :
          LET r == <<o, ErrorDetail(PageB, Raised("HTTPError", 404))>>
          IN  /\ broken_links = {r}
              /\ file = <<r>>

\* a run of the scenario in which the sub-task dispatched by /a won /b
C6_Witness ==
    /\ ScenarioRun
    /\ broken_links = {<<PageA, ErrorDetail(PageB, Raised("HTTPError", 404))>>}

InvalidRun == site = "invalid" /\ variant = "http"
SubTasksFor(url) == {t \in Ids : tasks[t].url = url /\ tasks[t].parent = Root}

\* C7 as stated: the seed's link 'not a url' fails the validity check after
\* resolution, the run ends with the one record
\* {https://ex.test/ >> Invalid URL: not a url}, no task is dispatched and
\* nothing is fetched for the link.
C7_InvalidLinkAsStated ==
    (InvalidRun /\ Done) =>
       /\ \E abs \in {HrefNotAUrl, PageNotAUrl} :
             broken_links = {<<Seed, InvalidDetail(abs)>>}
       /\ Ids = {Root}

\* C7 amended: 'not a url' resolves against the seed to
\* https://ex.test/not a url, which has a scheme and a network location and
\* passes the validity check: no Invalid URL record is made, one sub-task is
\* dispatched for it with the seed as origin, and with max_depth >= 1 it is
\* fetched; when the server answers 404 the run ends with the one record
\* {https://ex.test/ >> https://ex.test/not a url - Error: 404 ...}.
C7_InvalidLink ==
    InvalidRun =>
       /\ \A r \in broken_links : r[2].kind # "Invalid URL"
       /\ \A t \in Ids : t # Root =>
             /\ tasks[t].url = PageNotAUrl
             /\ tasks[t].origin_url = Seed
             /\ tasks[t].current_depth = 1
       /\ tasks[Root].pc \in {"wait", "done"} =>
             Cardinality(SubTasksFor(PageNotAUrl)) = 1
       /\ (Done /\ max_depth >= 1) =>
             /\ \E t \in SubTasksFor(PageNotAUrl) : Fetched(t)
             /\ broken_links =
                  {<<Seed, ErrorDetail(PageNotAUrl, Raised("HTTPError", 404))>>}

\* the link was dispatched, fetched and recorded with its HTTP error
C7_Witness ==
    /\ InvalidRun /\ Done /\ max_depth >= 1
    /\ \E t \in SubTasksFor(PageNotAUrl) : Fetched(t) /\ tasks[t].pc = "done"

\* C8: on a static site, with the same seed and max_depth, a second run
\* ends with the same set of broken-link records as the first.
C8_SameRecordsOnRerun ==
    (run > 1 /\ Done) => broken_links = prevBroken

Fails(o) == o.kind # "status" \/ (o.code >= 400 /\ o.code < 600)

\* C9: a fetch whose first attempt obtained a status code >= 400 makes no
\* further attempt and no backoff wait.
C9_NoRetryAfterErrorStatus ==
    \A t \in Ids :
       (/\ variant = "http" /\ Fetched(t)
        /\ tasks[t].outcomes[1].kind = "status"
        /\ tasks[t].outcomes[1].code >= 400)
       => /\ Len(tasks[t].outcomes) = 1
          /\ tasks[t].waits = <<>>
          /\ ~Fetching(t)

\* C10: fetch_url_with_retry makes at most MAX_RETRIES attempts, each one
\* preceded by a delay from [MIN_DELAY, MAX_DELAY]; after failed attempt i
\* (from 0) that is not the last it waits 2^i; it returns at the first
\* successful attempt, and when all attempts fail the caller receives the
\* failure of the last one.
C10_RetryPolicy ==
    \A t \in Ids : variant = "http" =>
       LET tk == tasks[t]
           n  == Len(tk.outcomes)
       IN  /\ n <= MAX_RETRIES
           /\ tk.sleeps = n + (IF tk.pc = "get" THEN 1 ELSE 0)
           /\ tk.pc = "get" => (MIN_DELAY <= tk.slept /\ tk.slept <= MAX_DELAY)
           /\ \A i \in 1..(n - 1) : Fails(tk.outcomes[i])
           /\ Len(tk.waits) = Cardinality({i \in 1..n : Fails(tk.outcomes[i]) /\ i < MAX_RETRIES})
           /\ \A i \in 1..Len(tk.waits) : tk.waits[i] = 2 ^ (i - 1)
           /\ (n >= 1 /\ ~Fails(tk.outcomes[n])) =>
                 tk.result = Response(tk.outcomes[n].code)
           /\ (n = MAX_RETRIES /\ Fails(tk.outcomes[n])) =>
                 /\ tk.result.kind = "raised"
                 /\ tk.result.exc =
                      (CASE tk.outcomes[n].kind = "timeout" -> "Timeout"
                         [] tk.outcomes[n].kind = "connerr" -> "ConnectionError"
                         [] OTHER -> "HTTPError")
                 /\ tk.result.code = tk.outcomes[n].code
           /\ (n < MAX_RETRIES /\ (n = 0 \/ Fails(tk.outcomes[n]))) =>
                 tk.result = NoResult /\ (n = 0 \/ Fetching(t))

\* a fetch that failed three times, waited 1 then 2, and raised the last
\* failure, which differs from the first
C10_Witness ==
    \E t \in Ids :
       /\ variant = "http"
       /\ tasks[t].outcomes = <<TimedOut, ConnErr, Status(404)>>
       /\ tasks[t].waits = <<1, 2>>
       /\ tasks[t].sleeps = 3
       /\ tasks[t].result = Raised("HTTPError", 404)

\* C11: the browser-rendered variant applies the fetch policy of the HTTP
\* variant: a rate-limit delay before every physical attempt, and a timeout
\* or transport failure retried until MAX_RETRIES attempts were made, so a
\* failure reaches the caller only after the last attempt.
C11_SameFetchPolicy ==
    \A t \in Ids :
       /\ tasks[t].sleeps = Len(tasks[t].outcomes)
                            + (IF tasks[t].pc = "get" /\ variant = "http" THEN 1 ELSE 0)
       /\ (Fetched(t) /\ tasks[t].pc = "get") => tasks[t].slept >= MIN_DELAY
       /\ tasks[t].result.kind = "raised" => Len(tasks[t].outcomes) = MAX_RETRIES

\* the same statement for the HTTP variant alone
C11_SameFetchPolicyHttp == variant = "http" => C11_SameFetchPolicy

\* the links of the page the task fetched that are to be followed: not
\* mailto: or tel:, and valid once resolved against the page's URL
PageHrefs(t) ==
    LET links == PageOf(site, tasks[t].url).links
    IN  {links[k] : k \in 1..Len(links)}
LinksToFollow(t) ==
    {u \in {urljoin(tasks[t].url, h) : h \in {x \in PageHrefs(t) : ~IsMailtoOrTel(x)}} :
        urlparse(u).scheme # "" /\ urlparse(u).netloc # <<>>}

\* C12: a fetch that ended with a status code in [200, 399] is a success:
\* when the task is over, every link to follow of its page was dispatched
\* as a sub-task at depth + 1 unless it was already visited.
C12_SuccessExpands ==
    \A t \in Ids :
       (/\ tasks[t].pc = "done" /\ tasks[t].claimed /\ Fetched(t)
        /\ LastOutcome(t).kind = "status"
        /\ LastOutcome(t).code >= 200 /\ LastOutcome(t).code <= 399)
       => \A u \in LinksToFollow(t) :
             \/ u \in visited
             \/ \E c \in Ids : /\ tasks[c].parent = t
                               /\ tasks[c].url = u
                               /\ tasks[c].current_depth = tasks[t].current_depth + 1

\* the same statement for the status 200 alone
C12_SuccessExpands200 ==
    \A t \in Ids :
       (/\ tasks[t].pc = "done" /\ tasks[t].claimed /\ Fetched(t)
        /\ LastOutcome(t) = Status(200))
       => \A u \in LinksToFollow(t) :
             \/ u \in visited
             \/ \E c \in Ids : /\ tasks[c].parent = t
                               /\ tasks[c].url = u
                               /\ tasks[c].current_depth = tasks[t].current_depth + 1

\* the in-domain URLs a page answering 200 links to (valid once resolved,
\* not mailto: or tel:)
InDomainLinksOf(url) ==
    LET links == PageOf(site, url).links
        hrefs == {links[k] : k \in 1..Len(links)}
    IN  IF PageOf(site, url).outcomes = {Status(200)}
        THEN {u \in {urljoin(url, h) : h \in {x \in hrefs : ~IsMailtoOrTel(x)}} :
                /\ urlparse(u).scheme # ""
                /\ IsInfix(urlparse(Seed).netloc, urlparse(u).netloc)}
        ELSE {}

\* the URLs within n links of the seed
RECURSIVE ReachableWithin(_)
ReachableWithin(n) ==
    IF n = 0 THEN {Seed}
    ELSE LET R == ReachableWithin(n - 1)
         IN  R \cup UNION {InDomainLinksOf(u) : u \in R}

\* C13: when a run on a static site ends, every in-domain URL within
\* max_depth links of the seed, through pages fetched successfully, has
\* been claimed and fetched, whichever task won each claim.
C13_StructuralCompletion ==
    (site \in StaticSites /\ Done) =>
       \A u \in ReachableWithin(max_depth) :
          /\ u \in visited
          /\ \E t \in Ids : tasks[t].url = u /\ Fetched(t)

\* the same statement for the URLs within one link of the seed
C13_DirectLinksCrawled ==
    (site \in StaticSites /\ Done) =>
       \A u \in ReachableWithin(IF max_depth = 0 THEN 0 ELSE 1) :
          /\ u \in visited
          /\ \E t \in Ids : tasks[t].url = u /\ Fetched(t)

Descendants(t) == {c \in Ids : tasks[c].parent = t}

\* C14: a crawl_url call is over only when every sub-task it dispatched is
\* over, so when the root call has returned every task is over, no lock is
\* held, no step is left to take, and visited, broken_links and the output
\* file are final.
C14_StructuredJoin ==
    /\ \A t \in Ids : tasks[t].pc = "done" =>
          /\ tasks[t].futures = Descendants(t)
          /\ \A c \in tasks[t].futures : tasks[c].pc = "done"
    /\ Done =>
          /\ \A t \in Ids : tasks[t].pc = "done"
          /\ visited_lock = 0 /\ broken_links_lock = 0 /\ file_lock = 0
          /\ ~ENABLED Next

\* the root has returned after sub-tasks of two levels fetched and recorded
C14_Witness ==
    /\ Done
    /\ broken_links # {}
    /\ \E t \in Ids : /\ tasks[t].current_depth = 2
                      /\ Fetched(t)
                      /\ tasks[tasks[t].parent].futures # {}

\* the pages that were fetched with status 200 and link to url
CrawledOrigins(url) ==
    {tasks[t].url : t \in {x \in Ids : /\ Fetched(x)
                                       /\ LastOutcome(x) = Status(200)
                                       /\ tasks[x].pc = "done"
                                       /\ url \in LinksToFollow(x)}}

BrokenUrl(url) ==
    \E t \in Ids : /\ tasks[t].url = url /\ tasks[t].pc = "done"
                   /\ tasks[t].result.kind = "raised"

\* C15 as stated: when a broken URL is linked from two different crawled
\* pages, the run ends with one record for it per origin.
C15_RecordPerOriginAsStated ==
    (Done /\ variant = "http") =>
       \A t \in Ids : BrokenUrl(tasks[t].url) =>
          \A o \in CrawledOrigins(tasks[t].url) :
             \E r \in RecordsAbout(tasks[t].url) : r[1] = o

\* C15 amended: a broken URL has exactly one record however many crawled
\* pages link to it: the record of the one task that claimed it, with that
\* task's origin_url (the URL itself for the root) as origin.
C15_OneRecordPerBrokenUrl ==
    /\ \A t \in Ids : Cardinality(RecordsAbout(tasks[t].url)) <= 1
    /\ \A t \in Ids :
          (tasks[t].pc = "done" /\ tasks[t].result.kind = "raised") =>
             RecordsAbout(tasks[t].url) =
                {<<IF tasks[t].origin_url # None
                   THEN tasks[t].origin_url ELSE tasks[t].url,
                   ErrorDetail(tasks[t].url, tasks[t].result)>>}

\* the run is over, /b is broken and linked from the seed and from /a, both
\* crawled, and one record was made for it
C15_Witness ==
    /\ Done /\ variant = "http"
    /\ CrawledOrigins(PageB) = {Seed, PageA}
    /\ BrokenUrl(PageB)
    /\ Cardinality(RecordsAbout(PageB)) = 1
    /\ \E t1, t2 \in Ids : /\ tasks[t1].url = PageB /\ tasks[t2].url = PageB
                           /\ tasks[t1].origin_url = Seed
                           /\ tasks[t2].origin_url = PageA

\* C16: every failure met while a task processes its URL (HTTP error
\* status, timeout, transport error) is turned into a broken-link record by
\* that task and stays inside it: the finished task has left its record,
\* its siblings and its parent still finish.
C16_FailuresRecordedLocally ==
    /\ \A t \in Ids :
          (tasks[t].pc = "done" /\ Fetched(t) /\ Fails(LastOutcome(t))) =>
             \E r \in RecordsAbout(tasks[t].url) :
                r[1] = (IF tasks[t].origin_url # None
                        THEN tasks[t].origin_url ELSE tasks[t].url)
    /\ Done => \A t \in Ids : tasks[t].pc = "done"
    /\ Done \/ ENABLED Next

\* the same statement for the HTTP variant alone
C16_FailuresRecordedLocallyHttp == variant = "http" => C16_FailuresRecordedLocally

Running(t) == tasks[t].pc \notin {"queued", "done"}

\* C17: at most max_workers direct sub-tasks of one expanding page run at a
\* time, the others wait in that page's pool; no bound holds across pools
\* (C17_Witness: more than max_workers tasks are fetching at once).
C17_BoundPerPool ==
    \A t \in Ids :
       /\ Cardinality({c \in Descendants(t) : Running(c)}) <= max_workers
       /\ \A c \in Descendants(t) :
             (tasks[c].pc = "queued"
              /\ Cardinality({d \in Descendants(t) : Running(d)}) < max_workers
              /\ \A d \in Descendants(t) : tasks[d].pc = "queued" => d >= c)
             => ENABLED Enter(c)

\* more tasks are inside their fetch than one pool has workers, while each
\* pool keeps to its bound
C17_Witness ==
    /\ Cardinality({t \in Ids : Fetching(t)}) > max_workers
    /\ max_workers >= 2
    /\ \A t \in Ids :
          Cardinality({c \in Descendants(t) : Running(c)}) <= max_workers

\* a sub-task waits in its page's pool because all the pool's workers are busy
C17_WitnessQueued ==
    \E t \in Ids : \E c \in Descendants(t) :
       /\ tasks[c].pc = "queued"
       /\ Cardinality({d \in Descendants(t) : Running(d)}) = max_workers
       /\ tasks[t].pc = "wait"

Lines == {file[i] : i \in 1..Len(file)}

\* C18 as stated: at the end of a run the output file has as many lines as
\* broken_links has pairs.
C18_LinePerPairAsStated ==
    Done => Len(file) = Cardinality(broken_links)

\* C18 amended: the output file gets one line per recording, not per pair:
\* whenever no recording is under way the lines of the file are exactly
\* the pairs of broken_links, and there are at least as many lines as
\* pairs (more when a pair was recorded more than once).
C18_LinePerRecording ==
    broken_links_lock = 0 =>
       /\ Lines = broken_links
       /\ Len(file) >= Cardinality(broken_links)

\* the run is over; the page held the same invalid href twice: one pair,
\* two lines
C18_Witness ==
    /\ Done
    /\ site = "repeat"
    /\ broken_links = {<<Seed, InvalidDetail(HrefJs)>>}
    /\ file = <<(<<Seed, InvalidDetail(HrefJs)>>), (<<Seed, InvalidDetail(HrefJs)>>)>>

\* C19: on every site of the model (finite) and for every max_depth, under
\* fair scheduling the root crawl_url call eventually returns, and every
\* task has finished by then.
C19_RootReturns == <>(Done /\ \A t \in Ids : tasks[t].pc = "done")

\* a run that is over after a fetch used all its attempts and sub-tasks
\* were run at depth 1 and dropped at a depth beyond max_depth
C19_Witness ==
    /\ Done
    /\ \E t \in Ids : Len(tasks[t].outcomes) = MAX_RETRIES
    /\ \E t \in Ids : tasks[t].current_depth >= 1 /\ Fetched(t)
    /\ \E t \in Ids : tasks[t].current_depth > max_depth

\* the lock a task is waiting to acquire, "" when it waits for none
WaitsFor(t) ==
    CASE tasks[t].pc = "claim"  -> "visited_lock"
      [] tasks[t].pc = "submit" /\ tasks[t].j <= Len(tasks[t].links_to_crawl)
                                -> "visited_lock"
      [] tasks[t].pc = "record" -> "broken_links_lock"
      [] tasks[t].pc = "write"  -> "file_lock"
      [] OTHER                  -> ""

\* C20: the three locks cannot deadlock. The holder of visited_lock is in
\* the claim block or the submit block: it waits for no other lock and is
\* not joining its sub-tasks. file_lock is held only by the holder of
\* broken_links_lock, and that holder never waits for visited_lock. A task
\* joins only the sub-tasks it submitted itself. While the root has not
\* returned some task can take a step.
C20_NoLockDeadlock ==
    /\ \A t \in Ids :
          /\ visited_lock = t =>
                /\ tasks[t].pc \in {"duplicate", "claimed", "submitted"}
                /\ WaitsFor(t) = ""
          /\ broken_links_lock = t =>
                /\ tasks[t].pc \in {"write", "written"}
                /\ WaitsFor(t) \in {"", "file_lock"}
          /\ file_lock = t => broken_links_lock = t /\ WaitsFor(t) = ""
          /\ WaitsFor(t) = "file_lock" => broken_links_lock = t
          /\ tasks[t].futures \subseteq Descendants(t)
    /\ visited_lock \in Ids \cup {0}
    /\ broken_links_lock \in Ids \cup {0}
    /\ file_lock \in Ids \cup {0}
    /\ Done \/ ENABLED Next

\* a parent joins its sub-tasks while one of them holds visited_lock and
\* another holds broken_links_lock and file_lock
C20_Witness ==
    \E p, a, b \in Ids :
       /\ tasks[p].pc = "wait"
       /\ {a, b} \subseteq tasks[p].futures
       /\ visited_lock = a
       /\ broken_links_lock = b /\ file_lock = b

\* a task waits for visited_lock while another task holds it
C20_WitnessContended ==
    \E a, c \in Ids :
       /\ visited_lock = a
       /\ c # a
       /\ WaitsFor(c) = "visited_lock"

====
